---- MODULE Spec2Model ----
(***************************************************************************)
(* Model of the acoustid-index session layer (Session, session.cpp) on top *)
(* of the index writer, the index snapshot holder, the query evaluator and *)
(* the top-hits collector.                                                  *)
(*                                                                          *)
(* Several client threads call the operations of several sessions that     *)
(* share one index.  Every Session operation takes the session mutex for   *)
(* its whole body (QMutexLocker), so an operation whose body touches the   *)
(* shared index at one point only is one step; commit(), search() and an   *)
(* optimize() that merges are split at the points where the index is read  *)
(* or published.                                                            *)
(*                                                                          *)
(* The ScopedPtr template (util/scoped_ptr.h) is modelled next to it: the  *)
(* pointer each ScopedPtr holds and the deletes it performs on the objects *)
(* its callers pass to it.                                                  *)
(***************************************************************************)
EXTENDS Integers, Sequences, FiniteSets, TLC

(* ------------------------------ bounds --------------------------------- *)
\* longest vector of hashes handed to insert() and search()
MaxQueryLen == 1
\* generations the index may publish
MaxGen      == 3
\* objects the callers of ScopedPtr allocate
MaxObjs     == 3

(* --------------------------- program constants -------------------------- *)
DefaultMaxResults      == 500
DefaultTopScorePercent == 10
IntMax                 == 2147483647
IntMin                 == (0 - IntMax) - 1

\* the sessions opened on the one index, and the client threads
Sessions == {1, 2}
Threads  == {1, 2}
\* the document ids and the hashes the clients use
Docs     == {1}
Hashes   == {1}
\* the document ids and the hashes of an index that was filled before the
\* sessions were opened
DocIds       == 1..3
StoredHashes == 1..3

\* the ScopedPtr<T> variables of the callers, and the objects of type T
\* (0 is the null pointer)
ScopedPtrs == {1, 2}
Objs       == 1..MaxObjs

\* a null QSharedPointer<IndexWriter>
NULL == [isNull |-> TRUE]

\* QVector<uint32_t> arguments of insert() and search()
HashVectors == UNION {[1..n -> Hashes] : n \in 0..MaxQueryLen}

\* QString values handed to setAttribute(), as sequences of characters
Values == { <<"1", "5", "0">>, <<"x">> }

SessionAttrs == {"max_results", "top_score_percent"}
IndexAttrs   == {"note"}
AttrNames    == SessionAttrs \cup IndexAttrs

VARIABLES
    info,               \* the manifest published by the index (m_index->info())
    hasWriter,          \* the index's writer lock: a writer exists
    garbage,            \* segment files on disk that no manifest references
    committedGen,       \* highest generation whose commit() has returned
    m_indexWriter,      \* per session: NULL or the session's IndexWriter
    m_maxResults,       \* per session
    m_topScorePercent,  \* per session
    m_mutex,            \* per session: 0 or the thread inside an operation
    pc,                 \* per thread: where it is in a Session operation
                        \* ("lock": blocked in the QMutexLocker of a call)
    cur,                \* per thread: the frame of the operation in progress
                        \* (floor: committedGen when a search started,
                        \* merging: whether a merge was running then)
    ret,                \* how the operation that ended last ended (res: the
                        \* result of a search, the number of postings a
                        \* rollback discarded)
    ptr,                \* per ScopedPtr: the pointer it holds
    live,               \* per ScopedPtr: constructed and not yet destroyed
    deletes,            \* per object: how often some ScopedPtr deleted it
                        \* (2: more than once)
    handed,             \* the objects that were passed to some ScopedPtr
    owned,              \* the objects whose owner is the caller: release()
                        \* returned them and they were not passed on since
    aliased             \* a ScopedPtr was passed an object that the caller
                        \* did not own and that it did not hold itself

vars == << info, hasWriter, garbage, committedGen,
           m_indexWriter, m_maxResults, m_topScorePercent, m_mutex,
           pc, cur, ret, ptr, live, deletes, handed, owned, aliased >>

scopedVars == << ptr, live, deletes, handed, owned, aliased >>

indexVars   == << info, hasWriter, garbage, committedGen >>
sessionVars == << m_indexWriter, m_maxResults, m_topScorePercent >>
callVars    == << m_mutex, pc, cur, ret >>

(* ----------------------------- QString::toInt --------------------------- *)
DigitChars == <<"0", "1", "2", "3", "4", "5", "6", "7", "8", "9">>

IsDigit(c) == \E i \in 1..10 : DigitChars[i] = c

DigitValue(c) == (CHOOSE i \in 1..10 : DigitChars[i] = c) - 1

RECURSIVE ParseDigits(_, _, _)
\* minus the value of a run of digit characters, accumulated below zero so
\* that the whole range of int fits, or 1 when a character is not a digit or
\* the value falls below min
ParseDigits(v, acc, min) ==
    IF v = << >> THEN acc
    ELSE IF ~IsDigit(Head(v)) THEN 1
    ELSE LET d == DigitValue(Head(v))
         IN  IF acc < (min + d + 9) \div 10 THEN 1
             ELSE ParseDigits(Tail(v), acc * 10 - d, min)

RECURSIVE Trimmed(_)
\* the string without leading and trailing spaces
Trimmed(v) ==
    IF v = << >> THEN v
    ELSE IF Head(v) = " " THEN Trimmed(Tail(v))
    ELSE IF v[Len(v)] = " " THEN Trimmed(SubSeq(v, 1, Len(v) - 1))
    ELSE v

\* << n >> when the string stands for the int n (spaces around it, an
\* optional sign, then digits), << >> when it stands for none
Parsed(v) ==
    LET w == Trimmed(v)
    IN  IF w = << >> THEN << >>
        ELSE LET neg    == Head(w) = "-"
                 signed == neg \/ Head(w) = "+"
                 digits == IF signed THEN Tail(w) ELSE w
                 n      == IF digits = << >> THEN 1
                           ELSE ParseDigits(digits, 0,
                                            IF neg THEN IntMin ELSE 0 - IntMax)
             IN  IF n > 0 THEN << >> ELSE << IF neg THEN n ELSE 0 - n >>

\* whether the conversion of v succeeds (the ok flag of QString::toInt)
IsNumeric(v) == Parsed(v) # << >>

\* QString::toInt(): the number, or 0 when the conversion fails
toInt(v) == LET r == Parsed(v) IN IF r = << >> THEN 0 ELSE r[1]

(* ----------------------------- QString::arg ----------------------------- *)
RECURSIVE NegDigits(_)
\* the decimal digits of -n for n <= 0 (the whole range of int fits below zero)
NegDigits(n) ==
    IF n > 0 - 10 THEN << DigitChars[1 - n] >>
    ELSE LET r == (10 - (n % 10)) % 10
         IN  Append(NegDigits((n + r) \div 10), DigitChars[r + 1])

\* QString("%1").arg(n): n in decimal, with a minus sign when negative
arg(n) == IF n < 0 THEN << "-" >> \o NegDigits(n) ELSE NegDigits(0 - n)

(* ------------------------------ the manifest ---------------------------- *)
NoAttrs == [n \in IndexAttrs |-> << >>]

EmptyManifest ==
    [generation |-> 0, next_segment_id |-> 1, segments |-> << >>,
     attrs |-> NoAttrs]

SeqRange(q) == {q[i] : i \in 1..Len(q)}

PostingDocs(postings) == {p[2] : p \in postings}

\* the documents of a segment that have not been superseded
LivePostings(seg) == {p \in seg.postings : p[2] \notin seg.deleted}

\* section 4.4: the documents of a new segment are marked deleted in every
\* older live segment that contains them
PropagateDeletes(segments, docs) ==
    [i \in 1..Len(segments) |->
        [segments[i] EXCEPT
            !.deleted = @ \cup (docs \cap PostingDocs(segments[i].postings))]]

\* section 4.6 commit(), steps 2-4: the manifest of the next generation
CommittedManifest(winfo, buffer) ==
    IF buffer = {}
    THEN [winfo EXCEPT !.generation = @ + 1]
    ELSE [winfo EXCEPT
            !.generation = @ + 1,
            !.next_segment_id = @ + 1,
            !.segments =
                Append(PropagateDeletes(winfo.segments, PostingDocs(buffer)),
                       [segment_id |-> winfo.next_segment_id,
                        postings |-> buffer, deleted |-> {}])]

Max(S) == CHOOSE x \in S : \A y \in S : y <= x

\* section 4.3: one segment holding the live postings of all inputs
MergeSegments(segments) ==
    [segment_id |-> Max({segments[i].segment_id : i \in 1..Len(segments)}),
     postings |-> UNION {LivePostings(segments[i]) : i \in 1..Len(segments)},
     deleted |-> {}]

(* --------------------------- the query evaluator ------------------------ *)
RECURSIVE Uniq(_)
\* the unique hashes of a query, in order of first occurrence
Uniq(q) ==
    IF q = << >> THEN << >>
    ELSE LET r == Uniq(SubSeq(q, 1, Len(q) - 1))
         IN  IF q[Len(q)] \in SeqRange(r) THEN r ELSE Append(r, q[Len(q)])

\* section 4.2/4.7: the documents with a live posting for hash h
PostingsFor(manifest, h) ==
    UNION {{p[2] : p \in {x \in LivePostings(manifest.segments[i]) : x[1] = h}}
           : i \in 1..Len(manifest.segments)}

\* the collector before the first hash: no document has a hit
NoScores == [d \in DocIds |-> 0]

\* the collector after the contributions of one hash
Collect(scores, manifest, h) ==
    [d \in DocIds |-> IF d \in PostingsFor(manifest, h)
                    THEN scores[d] + 1 ELSE scores[d]]

RECURSIVE Evaluate(_, _, _)
\* the whole query evaluated against one manifest
Evaluate(manifest, todo, scores) ==
    IF todo = << >> THEN scores
    ELSE Evaluate(manifest, Tail(todo), Collect(scores, manifest, Head(todo)))

(* --------------------------- the top-hits collector --------------------- *)
CeilDiv(a, b) == (a + b - 1) \div b

\* d1 is ranked before d2: score descending, then doc id ascending
Before(scores, d1, d2) ==
    \/ scores[d1] > scores[d2]
    \/ scores[d1] = scores[d2] /\ d1 < d2

RECURSIVE Ranked(_, _)
Ranked(scores, S) ==
    IF S = {} THEN << >>
    ELSE LET d == CHOOSE x \in S : \A y \in S \ {x} : Before(scores, x, y)
         IN  << <<d, scores[d]>> >> \o Ranked(scores, S \ {d})

Truncate(q, k) == IF k <= 0 THEN << >>
                  ELSE IF Len(q) <= k THEN q ELSE SubSeq(q, 1, k)

\* section 4.8 top_results()
topResults(scores, k, p) ==
    LET collected == {d \in DocIds : scores[d] > 0}
        best      == IF collected = {} THEN 0
                     ELSE Max({scores[d] : d \in collected})
        threshold == CeilDiv(best * p, 100)
    IN  Truncate(Ranked(scores, {d \in collected : scores[d] >= threshold}), k)

(* ------------------------------- frames --------------------------------- *)
NoFrame == [s |-> 0]
OK      == "ok"

Ret(op, s, err) == [op |-> op, s |-> s, err |-> err, res |-> << >>]

Idle(t) == pc[t] = "idle"

\* thread t has called an operation of session s and is blocked in its
\* QMutexLocker
Waiting(t, s) == pc[t] = "lock" /\ cur[t].s = s

\* QMutexLocker: a thread that calls an operation of session s, or is blocked
\* in such a call, takes the mutex when it is free
CanLock(t, s) == (Idle(t) \/ Waiting(t, s)) /\ m_mutex[s] = 0

\* the thread has left the operation
Leave(t) ==
    /\ pc' = [pc EXCEPT ![t] = "idle"]
    /\ cur' = [cur EXCEPT ![t] = NoFrame]

\* QMutexLocker on a mutex that another thread holds: the caller blocks
Wait(t, s) ==
    /\ Idle(t)
    /\ m_mutex[s] # 0
    /\ pc' = [pc EXCEPT ![t] = "lock"]
    /\ cur' = [cur EXCEPT ![t] = [s |-> s]]
    /\ UNCHANGED << indexVars, sessionVars, m_mutex, ret >>
    /\ UNCHANGED scopedVars

\* no ScopedPtr has been constructed and no object allocated
InitScoped ==
    /\ ptr = [i \in ScopedPtrs |-> 0]
    /\ live = [i \in ScopedPtrs |-> FALSE]
    /\ deletes = [o \in Objs |-> 0]
    /\ handed = {}
    /\ owned = {}
    /\ aliased = FALSE

Init ==
    /\ info = EmptyManifest
    /\ hasWriter = FALSE
    /\ garbage = {}
    /\ committedGen = 0
    /\ m_indexWriter = [s \in Sessions |-> NULL]
    /\ m_maxResults = [s \in Sessions |-> DefaultMaxResults]
    /\ m_topScorePercent = [s \in Sessions |-> DefaultTopScorePercent]
    /\ m_mutex = [s \in Sessions |-> 0]
    /\ pc = [t \in Threads |-> "idle"]
    /\ cur = [t \in Threads |-> NoFrame]
    /\ ret = Ret("none", 0, OK)
    /\ InitScoped

\* an index of one segment in which document d has hits[d] of the stored
\* hashes
StoredManifest(hits) ==
    [generation |-> 1, next_segment_id |-> 2,
     segments |-> << [segment_id |-> 1,
                      postings |-> {x \in StoredHashes \X DocIds :
                                        x[1] <= hits[x[2]]},
                      deleted |-> {}] >>,
     attrs |-> NoAttrs]

\* the sessions opened on an index that holds documents, session 1 with
\* settings that earlier set_attribute() calls left
InitCollector ==
    /\ \E hits \in [DocIds -> 0..3] : info = StoredManifest(hits)
    /\ hasWriter = FALSE
    /\ garbage = {}
    /\ committedGen = 1
    /\ m_indexWriter = [s \in Sessions |-> NULL]
    /\ \E k \in {0, 1, 2, DefaultMaxResults} :
           m_maxResults = [s \in Sessions |->
                             IF s = 1 THEN k ELSE DefaultMaxResults]
    /\ \E p \in {0, DefaultTopScorePercent, 50, 100} :
           m_topScorePercent = [s \in Sessions |->
                                  IF s = 1 THEN p ELSE DefaultTopScorePercent]
    /\ m_mutex = [s \in Sessions |-> 0]
    /\ pc = [t \in Threads |-> "idle"]
    /\ cur = [t \in Threads |-> NoFrame]
    /\ ret = Ret("none", 0, OK)
    /\ InitScoped

(* ------------------------------ IndexWriter ----------------------------- *)
\* the index's gate on writer creation: at most one writer per index
WriterLockFree == ~hasWriter

\* IndexWriter constructor: a writer on the published manifest, empty buffer
NewWriter ==
    [isNull |-> FALSE, buffer |-> {}, info |-> info, insertsOnly |-> TRUE]

(* ------------------------------ Session::begin -------------------------- *)
\* begin() that builds its writer without taking the index's writer lock
BeginNoGate(t, s) ==
    /\ CanLock(t, s)
    /\ IF m_indexWriter[s] # NULL
       THEN /\ ret' = Ret("begin", s, "AlreadyInTransaction")
            /\ UNCHANGED << m_indexWriter, hasWriter >>
       ELSE /\ m_indexWriter' = [m_indexWriter EXCEPT ![s] = NewWriter]
            /\ hasWriter' = TRUE
            /\ ret' = Ret("begin", s, OK)
    /\ UNCHANGED << info, garbage, committedGen, m_maxResults,
                    m_topScorePercent, m_mutex >>
    /\ Leave(t)
    /\ UNCHANGED scopedVars

\* begin() that drops the writer it holds and starts over
BeginRestart(t, s) ==
    /\ CanLock(t, s)
    /\ IF m_indexWriter[s] = NULL /\ ~WriterLockFree
       THEN /\ ret' = Ret("begin", s, "AlreadyInTransaction")
            /\ UNCHANGED << m_indexWriter, hasWriter >>
       ELSE /\ m_indexWriter' = [m_indexWriter EXCEPT ![s] = NewWriter]
            /\ hasWriter' = TRUE
            /\ ret' = Ret("begin", s, OK)
    /\ UNCHANGED << info, garbage, committedGen, m_maxResults,
                    m_topScorePercent, m_mutex >>
    /\ Leave(t)
    /\ UNCHANGED scopedVars

Begin(t, s) ==
    /\ CanLock(t, s)
    /\ IF m_indexWriter[s] # NULL
       THEN /\ ret' = Ret("begin", s, "AlreadyInTransaction")
            /\ UNCHANGED << m_indexWriter, hasWriter >>
       ELSE IF ~WriterLockFree
       THEN \* QSharedPointer<IndexWriter>::create throws: the index refuses
            \* a second writer and m_indexWriter is not assigned
            /\ ret' = Ret("begin", s, "AlreadyInTransaction")
            /\ UNCHANGED << m_indexWriter, hasWriter >>
       ELSE /\ m_indexWriter' = [m_indexWriter EXCEPT ![s] = NewWriter]
            /\ hasWriter' = TRUE
            /\ ret' = Ret("begin", s, OK)
    /\ UNCHANGED << info, garbage, committedGen, m_maxResults,
                    m_topScorePercent, m_mutex >>
    /\ Leave(t)
    /\ UNCHANGED scopedVars

(* ------------------------------ Session::commit ------------------------- *)
CommitStart(t, s) ==
    /\ CanLock(t, s)
    /\ IF m_indexWriter[s] = NULL
       THEN /\ ret' = Ret("commit", s, "NotInTransaction")
            /\ UNCHANGED m_mutex
            /\ Leave(t)
       ELSE /\ m_mutex' = [m_mutex EXCEPT ![s] = t]
            /\ pc' = [pc EXCEPT ![t] = "commit"]
            /\ cur' = [cur EXCEPT ![t] = [s |-> s]]
            /\ UNCHANGED ret
    /\ UNCHANGED << indexVars, sessionVars >>
    /\ UNCHANGED scopedVars

\* m_indexWriter->commit() succeeds: the new generation is published and the
\* buffer is cleared
WriterCommit(t) ==
    /\ pc[t] = "commit"
    /\ info.generation < MaxGen
    /\ LET s == cur[t].s
           w == m_indexWriter[s]
           m == CommittedManifest(w.info, w.buffer)
       IN  /\ info' = m
           /\ m_indexWriter' = [m_indexWriter EXCEPT
                                   ![s] = [w EXCEPT !.buffer = {}, !.info = m]]
    /\ pc' = [pc EXCEPT ![t] = "committed"]
    /\ UNCHANGED << hasWriter, garbage, committedGen, m_maxResults,
                    m_topScorePercent, m_mutex, cur, ret >>
    /\ UNCHANGED scopedVars

\* a failed commit that still runs m_indexWriter.clear()
WriterCommitFailClears(t) ==
    /\ pc[t] = "commit"
    /\ m_indexWriter' = [m_indexWriter EXCEPT ![cur[t].s] = NULL]
    /\ hasWriter' = FALSE
    /\ m_mutex' = [m_mutex EXCEPT ![cur[t].s] = 0]
    /\ pc' = [pc EXCEPT ![t] = "idle"]
    /\ cur' = [cur EXCEPT ![t] = NoFrame]
    /\ ret' = Ret("commit", cur[t].s, "IOError")
    /\ UNCHANGED << info, garbage, committedGen, m_maxResults,
                    m_topScorePercent >>
    /\ UNCHANGED scopedVars

\* a commit() whose exception leaves the session mutex locked
WriterCommitFailKeepsLock(t) ==
    /\ pc[t] = "commit"
    /\ pc' = [pc EXCEPT ![t] = "idle"]
    /\ cur' = [cur EXCEPT ![t] = NoFrame]
    /\ ret' = Ret("commit", cur[t].s, "IOError")
    /\ UNCHANGED << indexVars, sessionVars, m_mutex >>
    /\ UNCHANGED scopedVars

\* m_indexWriter->commit() throws: the exception leaves Session::commit
\* before m_indexWriter.clear()
WriterCommitFail(t) ==
    /\ pc[t] = "commit"
    /\ m_mutex' = [m_mutex EXCEPT ![cur[t].s] = 0]
    /\ pc' = [pc EXCEPT ![t] = "idle"]
    /\ cur' = [cur EXCEPT ![t] = NoFrame]
    /\ ret' = Ret("commit", cur[t].s, "IOError")
    /\ UNCHANGED << indexVars, sessionVars >>
    /\ UNCHANGED scopedVars

\* commit() that returns after the writer's commit without dropping the writer
CommitFinishKeepsWriter(t) ==
    /\ pc[t] = "committed"
    /\ committedGen' = m_indexWriter[cur[t].s].info.generation
    /\ m_mutex' = [m_mutex EXCEPT ![cur[t].s] = 0]
    /\ pc' = [pc EXCEPT ![t] = "idle"]
    /\ cur' = [cur EXCEPT ![t] = NoFrame]
    /\ ret' = Ret("commit", cur[t].s, OK)
    /\ UNCHANGED << info, hasWriter, garbage, m_indexWriter, m_maxResults,
                    m_topScorePercent >>
    /\ UNCHANGED scopedVars

\* m_indexWriter.clear() after the writer's commit, then the return
CommitFinish(t) ==
    /\ pc[t] = "committed"
    /\ m_indexWriter' = [m_indexWriter EXCEPT ![cur[t].s] = NULL]
    /\ hasWriter' = FALSE
    /\ committedGen' = m_indexWriter[cur[t].s].info.generation
    /\ m_mutex' = [m_mutex EXCEPT ![cur[t].s] = 0]
    /\ pc' = [pc EXCEPT ![t] = "idle"]
    /\ cur' = [cur EXCEPT ![t] = NoFrame]
    /\ ret' = Ret("commit", cur[t].s, OK)
    /\ UNCHANGED << info, garbage, m_maxResults,
                    m_topScorePercent >>
    /\ UNCHANGED scopedVars

(* ------------------------------ Session::rollback ----------------------- *)
\* rollback() that flushes the buffer like commit() before dropping the writer
RollbackFlushes(t, s) ==
    /\ CanLock(t, s)
    /\ IF m_indexWriter[s] = NULL
       THEN /\ ret' = Ret("rollback", s, "NotInTransaction")
            /\ UNCHANGED << m_indexWriter, hasWriter, info >>
       ELSE /\ m_indexWriter' = [m_indexWriter EXCEPT ![s] = NULL]
            /\ hasWriter' = FALSE
            /\ info' = IF m_indexWriter[s].buffer = {} \/ info.generation >= MaxGen
                       THEN info
                       ELSE CommittedManifest(m_indexWriter[s].info,
                                              m_indexWriter[s].buffer)
            /\ ret' = [Ret("rollback", s, OK) EXCEPT
                          !.res = << Cardinality(m_indexWriter[s].buffer) >>]
    /\ UNCHANGED << garbage, committedGen,
                    m_maxResults, m_topScorePercent, m_mutex >>
    /\ Leave(t)
    /\ UNCHANGED scopedVars

\* m_indexWriter.clear() destroys the writer: its buffer and pending
\* manifest are dropped and the index's writer lock is released
Rollback(t, s) ==
    /\ CanLock(t, s)
    /\ IF m_indexWriter[s] = NULL
       THEN /\ ret' = Ret("rollback", s, "NotInTransaction")
            /\ UNCHANGED << m_indexWriter, hasWriter >>
       ELSE /\ m_indexWriter' = [m_indexWriter EXCEPT ![s] = NULL]
            /\ hasWriter' = FALSE
            /\ ret' = [Ret("rollback", s, OK) EXCEPT
                          !.res = << Cardinality(m_indexWriter[s].buffer) >>]
    /\ UNCHANGED << info, garbage, committedGen,
                    m_maxResults, m_topScorePercent, m_mutex >>
    /\ Leave(t)
    /\ UNCHANGED scopedVars

(* ------------------------------ Session::optimize ----------------------- *)
\* optimize() up to the merge: with fewer than two live segments the writer
\* has nothing to merge and the call returns; otherwise the merge starts and
\* runs under the session mutex
OptimizeStart(t, s) ==
    /\ CanLock(t, s)
    /\ IF m_indexWriter[s] = NULL
       THEN /\ ret' = Ret("optimize", s, "NotInTransaction")
            /\ UNCHANGED << m_mutex, m_indexWriter >>
            /\ Leave(t)
       ELSE IF Len(info.segments) < 2
       THEN /\ ret' = Ret("optimize", s, OK)
            /\ m_indexWriter' = [m_indexWriter EXCEPT ![s].insertsOnly = FALSE]
            /\ UNCHANGED m_mutex
            /\ Leave(t)
       ELSE /\ m_mutex' = [m_mutex EXCEPT ![s] = t]
            /\ pc' = [pc EXCEPT ![t] = "optimize"]
            /\ cur' = [cur EXCEPT ![t] = [s |-> s]]
            /\ UNCHANGED << ret, m_indexWriter >>
    /\ UNCHANGED << indexVars, m_maxResults, m_topScorePercent >>
    /\ UNCHANGED scopedVars

\* m_indexWriter->optimize() completes: all live segments are merged into one
\* and a manifest that replaces them by the merged segment is published
OptimizeMerge(t) ==
    /\ pc[t] = "optimize"
    /\ info.generation < MaxGen
    /\ LET s      == cur[t].s
           merged == << MergeSegments(info.segments) >>
           m      == [info EXCEPT !.generation = @ + 1, !.segments = merged]
       IN  /\ info' = m
           /\ garbage' = garbage \cup SeqRange(info.segments)
           /\ m_indexWriter' = [m_indexWriter EXCEPT
                                  ![s].insertsOnly = FALSE,
                                  ![s].info.generation = m.generation,
                                  ![s].info.segments = merged]
    /\ ret' = Ret("optimize", cur[t].s, OK)
    /\ m_mutex' = [m_mutex EXCEPT ![cur[t].s] = 0]
    /\ pc' = [pc EXCEPT ![t] = "idle"]
    /\ cur' = [cur EXCEPT ![t] = NoFrame]
    /\ UNCHANGED << hasWriter, committedGen, m_maxResults, m_topScorePercent >>
    /\ UNCHANGED scopedVars

\* m_indexWriter->optimize() throws: nothing is published and the exception
\* leaves Session::optimize
OptimizeFail(t) ==
    /\ pc[t] = "optimize"
    /\ ret' = Ret("optimize", cur[t].s, "IOError")
    /\ m_mutex' = [m_mutex EXCEPT ![cur[t].s] = 0]
    /\ pc' = [pc EXCEPT ![t] = "idle"]
    /\ cur' = [cur EXCEPT ![t] = NoFrame]
    /\ UNCHANGED << indexVars, sessionVars >>
    /\ UNCHANGED scopedVars

(* ------------------------------ Session::cleanup ------------------------ *)
\* the segments some search in progress still holds through its snapshot
HeldSegments ==
    UNION {SeqRange(cur[t].snap.segments) : t \in {u \in Threads : pc[u] = "search"}}

\* cleanup() that drops the writer when it is done, as commit() does
CleanupEndsTransaction(t, s) ==
    /\ CanLock(t, s)
    /\ IF m_indexWriter[s] = NULL
       THEN /\ ret' = Ret("cleanup", s, "NotInTransaction")
            /\ UNCHANGED << garbage, m_indexWriter, hasWriter >>
       ELSE /\ ret' = Ret("cleanup", s, OK)
            /\ garbage' = (garbage \cap HeldSegments) \ SeqRange(info.segments)
            /\ m_indexWriter' = [m_indexWriter EXCEPT ![s] = NULL]
            /\ hasWriter' = FALSE
    /\ UNCHANGED << info, committedGen,
                    m_maxResults, m_topScorePercent, m_mutex >>
    /\ Leave(t)
    /\ UNCHANGED scopedVars

\* m_indexWriter->cleanup(): unlinks the segment files that neither the
\* current manifest nor an outstanding snapshot references
Cleanup(t, s) ==
    /\ CanLock(t, s)
    /\ IF m_indexWriter[s] = NULL
       THEN /\ ret' = Ret("cleanup", s, "NotInTransaction")
            /\ UNCHANGED << garbage, m_indexWriter >>
       ELSE /\ ret' = Ret("cleanup", s, OK)
            /\ garbage' = (garbage \cap HeldSegments) \ SeqRange(info.segments)
            /\ m_indexWriter' = [m_indexWriter EXCEPT ![s].insertsOnly = FALSE]
    /\ UNCHANGED << info, hasWriter, committedGen,
                    m_maxResults, m_topScorePercent, m_mutex >>
    /\ Leave(t)
    /\ UNCHANGED scopedVars

(* ------------------------------ Session::getAttribute ------------------- *)
\* getAttribute() that always reads the manifest the index has published
GetAttributePublished(t, s, name) ==
    /\ CanLock(t, s)
    /\ ret' = [Ret("get_attribute", s, OK) EXCEPT !.res =
                 << IF name = "max_results" THEN arg(m_maxResults[s])
                    ELSE IF name = "top_score_percent"
                    THEN arg(m_topScorePercent[s])
                    ELSE info.attrs[name] >>]
    /\ UNCHANGED << indexVars, sessionVars, m_mutex >>
    /\ Leave(t)
    /\ UNCHANGED scopedVars

\* the two settings of the session are formatted from its members; any other
\* name is read from the writer's manifest in a transaction and from the
\* manifest of the index out of one
GetAttribute(t, s, name) ==
    /\ CanLock(t, s)
    /\ ret' = [Ret("get_attribute", s, OK) EXCEPT !.res =
                 << IF name = "max_results" THEN arg(m_maxResults[s])
                    ELSE IF name = "top_score_percent"
                    THEN arg(m_topScorePercent[s])
                    ELSE IF m_indexWriter[s] = NULL
                    THEN info.attrs[name]
                    ELSE m_indexWriter[s].info.attrs[name] >>]
    /\ UNCHANGED << indexVars, sessionVars, m_mutex >>
    /\ Leave(t)
    /\ UNCHANGED scopedVars

(* ------------------------------ Session::setAttribute ------------------- *)
\* setAttribute() that checks for a transaction before it looks at the name
SetAttributeInTransaction(t, s, name, value) ==
    /\ CanLock(t, s)
    /\ IF m_indexWriter[s] = NULL
       THEN /\ ret' = Ret("set_attribute", s, "NotInTransaction")
            /\ UNCHANGED << m_maxResults, m_topScorePercent, m_indexWriter >>
       ELSE IF name = "max_results"
       THEN /\ m_maxResults' = [m_maxResults EXCEPT ![s] = toInt(value)]
            /\ ret' = Ret("set_attribute", s, OK)
            /\ UNCHANGED << m_topScorePercent, m_indexWriter >>
       ELSE IF name = "top_score_percent"
       THEN /\ m_topScorePercent' = [m_topScorePercent EXCEPT ![s] = toInt(value)]
            /\ ret' = Ret("set_attribute", s, OK)
            /\ UNCHANGED << m_maxResults, m_indexWriter >>
       ELSE /\ m_indexWriter' = [m_indexWriter EXCEPT
                                   ![s].info.attrs[name] = value,
                                   ![s].insertsOnly = FALSE]
            /\ ret' = Ret("set_attribute", s, OK)
            /\ UNCHANGED << m_maxResults, m_topScorePercent >>
    /\ UNCHANGED << indexVars, m_mutex >>
    /\ Leave(t)
    /\ UNCHANGED scopedVars

\* setAttribute() that writes the attribute straight into the manifest the
\* index has published
SetAttributePublishes(t, s, name, value) ==
    /\ CanLock(t, s)
    /\ IF name = "max_results"
       THEN /\ m_maxResults' = [m_maxResults EXCEPT ![s] = toInt(value)]
            /\ ret' = Ret("set_attribute", s, OK)
            /\ UNCHANGED << m_topScorePercent, m_indexWriter, info >>
       ELSE IF name = "top_score_percent"
       THEN /\ m_topScorePercent' = [m_topScorePercent EXCEPT ![s] = toInt(value)]
            /\ ret' = Ret("set_attribute", s, OK)
            /\ UNCHANGED << m_maxResults, m_indexWriter, info >>
       ELSE IF m_indexWriter[s] = NULL
       THEN /\ ret' = Ret("set_attribute", s, "NotInTransaction")
            /\ UNCHANGED << m_maxResults, m_topScorePercent, m_indexWriter, info >>
       ELSE /\ info' = [info EXCEPT !.attrs[name] = value]
            /\ m_indexWriter' = [m_indexWriter EXCEPT
                                   ![s].info.attrs[name] = value,
                                   ![s].insertsOnly = FALSE]
            /\ ret' = Ret("set_attribute", s, OK)
            /\ UNCHANGED << m_maxResults, m_topScorePercent >>
    /\ UNCHANGED << hasWriter, garbage, committedGen, m_mutex >>
    /\ Leave(t)
    /\ UNCHANGED scopedVars

SetAttribute(t, s, name, value) ==
    /\ CanLock(t, s)
    /\ IF name = "max_results"
       THEN /\ m_maxResults' = [m_maxResults EXCEPT ![s] = toInt(value)]
            /\ ret' = Ret("set_attribute", s, OK)
            /\ UNCHANGED << m_topScorePercent, m_indexWriter >>
       ELSE IF name = "top_score_percent"
       THEN /\ m_topScorePercent' = [m_topScorePercent EXCEPT ![s] = toInt(value)]
            /\ ret' = Ret("set_attribute", s, OK)
            /\ UNCHANGED << m_maxResults, m_indexWriter >>
       ELSE IF m_indexWriter[s] = NULL
       THEN /\ ret' = Ret("set_attribute", s, "NotInTransaction")
            /\ UNCHANGED << m_maxResults, m_topScorePercent, m_indexWriter >>
       ELSE /\ m_indexWriter' = [m_indexWriter EXCEPT
                                   ![s].info.attrs[name] = value,
                                   ![s].insertsOnly = FALSE]
            /\ ret' = Ret("set_attribute", s, OK)
            /\ UNCHANGED << m_maxResults, m_topScorePercent >>
    /\ UNCHANGED << indexVars, m_mutex >>
    /\ Leave(t)
    /\ UNCHANGED scopedVars

(* ------------------------------ Session::insert ------------------------- *)
\* insert() that opens a transaction of its own when there is none
InsertAutoBegin(t, s, id, hashes) ==
    /\ CanLock(t, s)
    /\ IF m_indexWriter[s] = NULL /\ ~WriterLockFree
       THEN /\ ret' = Ret("insert", s, "NotInTransaction")
            /\ UNCHANGED << m_indexWriter, hasWriter >>
       ELSE /\ m_indexWriter' = [m_indexWriter EXCEPT
                  ![s] = [(IF m_indexWriter[s] = NULL THEN NewWriter ELSE @) EXCEPT
                            !.buffer = @ \cup {<< h, id >> : h \in SeqRange(hashes)}]]
            /\ hasWriter' = TRUE
            /\ ret' = Ret("insert", s, OK)
    /\ UNCHANGED << info, garbage, committedGen, m_maxResults, m_topScorePercent,
                    m_mutex >>
    /\ Leave(t)
    /\ UNCHANGED scopedVars

\* insert() that commits each document as soon as it is added
InsertAutoCommit(t, s, id, hashes) ==
    /\ CanLock(t, s)
    /\ IF m_indexWriter[s] = NULL
       THEN /\ ret' = Ret("insert", s, "NotInTransaction")
            /\ UNCHANGED << m_indexWriter, info >>
       ELSE /\ info.generation < MaxGen
            /\ LET w == m_indexWriter[s]
                   m == CommittedManifest(w.info,
                            w.buffer \cup {<< h, id >> : h \in SeqRange(hashes)})
               IN  /\ info' = m
                   /\ m_indexWriter' = [m_indexWriter EXCEPT
                                           ![s] = [w EXCEPT !.buffer = {}, !.info = m]]
            /\ ret' = Ret("insert", s, OK)
    /\ UNCHANGED << hasWriter, garbage, committedGen, m_maxResults,
                    m_topScorePercent, m_mutex >>
    /\ Leave(t)
    /\ UNCHANGED scopedVars

\* m_indexWriter->addDocument(): the postings (h, id) join the buffer
Insert(t, s, id, hashes) ==
    /\ CanLock(t, s)
    /\ IF m_indexWriter[s] = NULL
       THEN /\ ret' = Ret("insert", s, "NotInTransaction")
            /\ UNCHANGED m_indexWriter
       ELSE /\ m_indexWriter' = [m_indexWriter EXCEPT
                  ![s].buffer = @ \cup {<< h, id >> : h \in SeqRange(hashes)}]
            /\ ret' = Ret("insert", s, OK)
    /\ UNCHANGED << indexVars, m_maxResults, m_topScorePercent,
                    m_mutex >>
    /\ Leave(t)
    /\ UNCHANGED scopedVars

(* ------------------------------ Session::search ------------------------- *)
\* some optimize() is merging
Merging == \E t \in Threads : pc[t] = "optimize"

\* search() whose reader waits until no writer holds the index
SearchStartWaitsForWriter(t, s, hashes) ==
    /\ CanLock(t, s)
    /\ WriterLockFree
    /\ m_mutex' = [m_mutex EXCEPT ![s] = t]
    /\ pc' = [pc EXCEPT ![t] = "search"]
    /\ cur' = [cur EXCEPT ![t] =
                 [s |-> s, snap |-> info, query |-> hashes,
                  todo |-> Uniq(hashes), scores |-> NoScores,
                  k |-> m_maxResults[s], p |-> m_topScorePercent[s],
                  floor |-> committedGen, merging |-> Merging]]
    /\ UNCHANGED << indexVars, sessionVars, ret >>
    /\ UNCHANGED scopedVars

\* the manifest a reader built on the session's writer would see: the
\* writer's buffer on top of the published segments
WriterView(s) ==
    IF m_indexWriter[s] = NULL \/ m_indexWriter[s].buffer = {} THEN info
    ELSE [info EXCEPT !.segments =
            Append(@, [segment_id |-> info.next_segment_id,
                       postings |-> m_indexWriter[s].buffer, deleted |-> {}])]

\* search() whose reader is built on the session's writer when it has one
SearchStartOnWriter(t, s, hashes) ==
    /\ CanLock(t, s)
    /\ m_mutex' = [m_mutex EXCEPT ![s] = t]
    /\ pc' = [pc EXCEPT ![t] = "search"]
    /\ cur' = [cur EXCEPT ![t] =
                 [s |-> s, snap |-> WriterView(s), query |-> hashes,
                  todo |-> Uniq(hashes), scores |-> NoScores,
                  k |-> m_maxResults[s], p |-> m_topScorePercent[s],
                  floor |-> committedGen, merging |-> Merging]]
    /\ UNCHANGED << indexVars, sessionVars, ret >>
    /\ UNCHANGED scopedVars

\* search() on a reader the session built once, when it was constructed
SearchStartCached(t, s, hashes) ==
    /\ CanLock(t, s)
    /\ m_mutex' = [m_mutex EXCEPT ![s] = t]
    /\ pc' = [pc EXCEPT ![t] = "search"]
    /\ cur' = [cur EXCEPT ![t] =
                 [s |-> s, snap |-> EmptyManifest, query |-> hashes,
                  todo |-> Uniq(hashes), scores |-> NoScores,
                  k |-> m_maxResults[s], p |-> m_topScorePercent[s],
                  floor |-> committedGen, merging |-> Merging]]
    /\ UNCHANGED << indexVars, sessionVars, ret >>
    /\ UNCHANGED scopedVars

\* search() without the QMutexLocker
SearchStartUnlocked(t, s, hashes) ==
    /\ Idle(t)
    /\ pc' = [pc EXCEPT ![t] = "search"]
    /\ cur' = [cur EXCEPT ![t] =
                 [s |-> s, snap |-> info, query |-> hashes,
                  todo |-> Uniq(hashes), scores |-> NoScores,
                  k |-> m_maxResults[s], p |-> m_topScorePercent[s],
                  floor |-> committedGen, merging |-> Merging]]
    /\ UNCHANGED << indexVars, sessionVars, m_mutex, ret >>
    /\ UNCHANGED scopedVars

\* search() whose collector is built with the default settings
SearchStartDefaults(t, s, hashes) ==
    /\ CanLock(t, s)
    /\ m_mutex' = [m_mutex EXCEPT ![s] = t]
    /\ pc' = [pc EXCEPT ![t] = "search"]
    /\ cur' = [cur EXCEPT ![t] =
                 [s |-> s, snap |-> info, query |-> hashes,
                  todo |-> Uniq(hashes), scores |-> NoScores,
                  k |-> DefaultMaxResults, p |-> DefaultTopScorePercent,
                  floor |-> committedGen, merging |-> Merging]]
    /\ UNCHANGED << indexVars, sessionVars, ret >>
    /\ UNCHANGED scopedVars

\* the collector is built from the session's settings and the reader takes
\* its snapshot of the index
SearchStart(t, s, hashes) ==
    /\ CanLock(t, s)
    /\ m_mutex' = [m_mutex EXCEPT ![s] = t]
    /\ pc' = [pc EXCEPT ![t] = "search"]
    /\ cur' = [cur EXCEPT ![t] =
                 [s |-> s, snap |-> info, query |-> hashes,
                  todo |-> Uniq(hashes), scores |-> NoScores,
                  k |-> m_maxResults[s], p |-> m_topScorePercent[s],
                  floor |-> committedGen, merging |-> Merging]]
    /\ UNCHANGED << indexVars, sessionVars, ret >>
    /\ UNCHANGED scopedVars

\* a search that reads each hash from the manifest published at that moment
SearchStepLive(t) ==
    /\ pc[t] = "search"
    /\ cur[t].todo # << >>
    /\ cur' = [cur EXCEPT
                 ![t].scores = Collect(@, info, Head(cur[t].todo)),
                 ![t].todo = Tail(@)]
    /\ UNCHANGED << indexVars, sessionVars, m_mutex, pc, ret >>
    /\ UNCHANGED scopedVars

\* reader.search(): the postings of the next hash of the query are read from
\* the reader's snapshot and fed to the collector
SearchStep(t) ==
    /\ pc[t] = "search"
    /\ cur[t].todo # << >>
    /\ cur' = [cur EXCEPT
                 ![t].scores = Collect(@, cur[t].snap, Head(cur[t].todo)),
                 ![t].todo = Tail(@)]
    /\ UNCHANGED << indexVars, sessionVars, m_mutex, pc, ret >>
    /\ UNCHANGED scopedVars

\* reader.search() throws: the exception leaves Session::search
SearchFail(t) ==
    /\ pc[t] = "search"
    /\ ret' = Ret("search", cur[t].s, "IOError")
    /\ m_mutex' = [m_mutex EXCEPT ![cur[t].s] = 0]
    /\ pc' = [pc EXCEPT ![t] = "idle"]
    /\ cur' = [cur EXCEPT ![t] = NoFrame]
    /\ UNCHANGED << indexVars, sessionVars >>
    /\ UNCHANGED scopedVars

\* return collector.topResults()
SearchReturn(t) ==
    /\ pc[t] = "search"
    /\ cur[t].todo = << >>
    /\ ret' = [op |-> "search", s |-> cur[t].s, err |-> OK,
               res |-> topResults(cur[t].scores, cur[t].k, cur[t].p)]
    /\ m_mutex' = [m_mutex EXCEPT ![cur[t].s] = 0]
    /\ pc' = [pc EXCEPT ![t] = "idle"]
    /\ cur' = [cur EXCEPT ![t] = NoFrame]
    /\ UNCHANGED << indexVars, sessionVars >>
    /\ UNCHANGED scopedVars

(* ------------------------------- ScopedPtr ------------------------------ *)
\* the pointers a caller can pass: null, an object that was passed to a
\* ScopedPtr before, or the object it allocates next
Pointers ==
    {0} \cup handed \cup
    (IF Objs \subseteq handed THEN {}
     ELSE {CHOOSE o \in Objs \ handed : \A x \in Objs \ handed : o <= x})

\* delete p: nothing for the null pointer
Delete(d, p) ==
    IF p = 0 THEN d ELSE [d EXCEPT ![p] = IF @ < 2 THEN @ + 1 ELSE @]

\* the caller passes p to a ScopedPtr that holds q
Hand(q, p) ==
    /\ handed' = IF p = 0 THEN handed ELSE handed \cup {p}
    /\ owned' = owned \ {p}
    /\ aliased' = (aliased \/ (p # 0 /\ p # q /\ p \in handed \ owned))

\* explicit ScopedPtr(T* p = 0): ptr(p) {}
ScopedPtrConstruct(i, p) ==
    /\ ~live[i]
    /\ live' = [live EXCEPT ![i] = TRUE]
    /\ ptr' = [ptr EXCEPT ![i] = p]
    /\ Hand(0, p)
    /\ UNCHANGED << deletes, indexVars, sessionVars, callVars >>

\* ~ScopedPtr() { delete ptr; }
ScopedPtrDestroy(i) ==
    /\ live[i]
    /\ deletes' = Delete(deletes, ptr[i])
    /\ live' = [live EXCEPT ![i] = FALSE]
    /\ ptr' = [ptr EXCEPT ![i] = 0]
    /\ UNCHANGED << handed, owned, aliased, indexVars, sessionVars, callVars >>

\* reset() that deletes the held object whatever it is passed
resetNoSelfCheck(i, p) ==
    /\ live[i]
    /\ deletes' = Delete(deletes, ptr[i])
    /\ ptr' = [ptr EXCEPT ![i] = p]
    /\ Hand(ptr[i], p)
    /\ UNCHANGED << live, indexVars, sessionVars, callVars >>

\* if (ptr != p) { delete ptr; ptr = p; }
reset(i, p) ==
    /\ live[i]
    /\ IF ptr[i] # p
       THEN /\ deletes' = Delete(deletes, ptr[i])
            /\ ptr' = [ptr EXCEPT ![i] = p]
       ELSE UNCHANGED << deletes, ptr >>
    /\ Hand(ptr[i], p)
    /\ UNCHANGED << live, indexVars, sessionVars, callVars >>

\* T* tmp = ptr; ptr = 0; return tmp;  (the caller owns what is returned)
release(i) ==
    /\ live[i]
    /\ ptr' = [ptr EXCEPT ![i] = 0]
    /\ owned' = IF ptr[i] = 0 THEN owned ELSE owned \cup {ptr[i]}
    /\ UNCHANGED << live, deletes, handed, aliased,
                    indexVars, sessionVars, callVars >>

\* T* tmp = b.ptr; b.ptr = ptr; ptr = tmp;
swap(i, b) ==
    /\ live[i] /\ live[b]
    /\ ptr' = [ptr EXCEPT ![i] = ptr[b], ![b] = ptr[i]]
    /\ UNCHANGED << live, deletes, handed, owned, aliased,
                    indexVars, sessionVars, callVars >>

Next ==
    \/ \E i \in ScopedPtrs, p \in Pointers : ScopedPtrConstruct(i, p)
    \/ \E i \in ScopedPtrs : ScopedPtrDestroy(i)
    \/ \E i \in ScopedPtrs, p \in Pointers : reset(i, p)
    \/ \E i \in ScopedPtrs : release(i)
    \/ \E i \in ScopedPtrs, b \in ScopedPtrs : swap(i, b)
    \/ \E t \in Threads, s \in Sessions : Wait(t, s)
    \/ \E t \in Threads, s \in Sessions : Begin(t, s)
    \/ \E t \in Threads, s \in Sessions : CommitStart(t, s)
    \/ \E t \in Threads : WriterCommit(t)
    \/ \E t \in Threads : WriterCommitFail(t)
    \/ \E t \in Threads : CommitFinish(t)
    \/ \E t \in Threads, s \in Sessions : Rollback(t, s)
    \/ \E t \in Threads, s \in Sessions : OptimizeStart(t, s)
    \/ \E t \in Threads : OptimizeMerge(t)
    \/ \E t \in Threads : OptimizeFail(t)
    \/ \E t \in Threads, s \in Sessions : Cleanup(t, s)
    \/ \E t \in Threads, s \in Sessions, n \in AttrNames : GetAttribute(t, s, n)
    \/ \E t \in Threads, s \in Sessions, n \in AttrNames, v \in Values :
          SetAttribute(t, s, n, v)
    \/ \E t \in Threads, s \in Sessions, d \in Docs, h \in HashVectors :
          Insert(t, s, d, h)
    \/ \E t \in Threads, s \in Sessions, h \in HashVectors : SearchStart(t, s, h)
    \/ \E t \in Threads : SearchStep(t)
    \/ \E t \in Threads : SearchFail(t)
    \/ \E t \in Threads : SearchReturn(t)

\* every thread may call every operation of every session
Spec == Init /\ [][Next]_vars

\* the clients of the transaction workload: every thread works on a session
\* of its own (thread t on session t), with the attributes left as they are
\* and an index whose files can be read
NextTx ==
    \/ \E t \in Threads : Begin(t, t)
    \/ \E t \in Threads : CommitStart(t, t)
    \/ \E t \in Threads : WriterCommit(t)
    \/ \E t \in Threads : WriterCommitFail(t)
    \/ \E t \in Threads : CommitFinish(t)
    \/ \E t \in Threads : Rollback(t, t)
    \/ \E t \in Threads : OptimizeStart(t, t)
    \/ \E t \in Threads : OptimizeMerge(t)
    \/ \E t \in Threads : OptimizeFail(t)
    \/ \E t \in Threads : Cleanup(t, t)
    \/ \E t \in Threads, d \in Docs, h \in HashVectors : Insert(t, t, d, h)
    \/ \E t \in Threads, h \in HashVectors : SearchStart(t, t, h)
    \/ \E t \in Threads : SearchStep(t)
    \/ \E t \in Threads : SearchReturn(t)

SpecTx == Init /\ [][NextTx]_vars

\* the client of the attribute workload: one thread that calls the
\* operations of one session, set_attribute with every name and value, on an
\* index whose files can be read
NextAttr ==
    \/ Begin(1, 1)
    \/ CommitStart(1, 1)
    \/ WriterCommit(1)
    \/ WriterCommitFail(1)
    \/ CommitFinish(1)
    \/ Rollback(1, 1)
    \/ OptimizeStart(1, 1)
    \/ OptimizeMerge(1)
    \/ OptimizeFail(1)
    \/ Cleanup(1, 1)
    \/ \E n \in AttrNames, v \in Values : SetAttribute(1, 1, n, v)
    \/ \E d \in Docs, h \in HashVectors : Insert(1, 1, d, h)
    \/ \E h \in HashVectors : SearchStart(1, 1, h)
    \/ SearchStep(1)
    \/ SearchReturn(1)

SpecAttr == Init /\ [][NextAttr]_vars

\* the clients of the attribute-reading workload: any thread on any session
\* opens and ends transactions, sets the attributes of the index and reads
\* every attribute
NextGet ==
    \/ \E t \in Threads, s \in Sessions : Begin(t, s)
    \/ \E t \in Threads, s \in Sessions : CommitStart(t, s)
    \/ \E t \in Threads : WriterCommit(t)
    \/ \E t \in Threads : WriterCommitFail(t)
    \/ \E t \in Threads : CommitFinish(t)
    \/ \E t \in Threads, s \in Sessions : Rollback(t, s)
    \/ \E t \in Threads, s \in Sessions, n \in AttrNames : GetAttribute(t, s, n)
    \/ \E t \in Threads, s \in Sessions, n \in IndexAttrs, v \in Values :
          SetAttribute(t, s, n, v)

SpecGet == Init /\ [][NextGet]_vars

\* the clients of the shared-session workload: every thread calls every
\* operation of the one session they share, with one value for the
\* attributes, one document and one query
NextShared ==
    \/ \E t \in Threads : Wait(t, 1)
    \/ \E t \in Threads : Begin(t, 1)
    \/ \E t \in Threads : CommitStart(t, 1)
    \/ \E t \in Threads : WriterCommit(t)
    \/ \E t \in Threads : WriterCommitFail(t)
    \/ \E t \in Threads : CommitFinish(t)
    \/ \E t \in Threads : Rollback(t, 1)
    \/ \E t \in Threads : OptimizeStart(t, 1)
    \/ \E t \in Threads : OptimizeMerge(t)
    \/ \E t \in Threads : OptimizeFail(t)
    \/ \E t \in Threads : Cleanup(t, 1)
    \/ \E t \in Threads, n \in AttrNames : GetAttribute(t, 1, n)
    \/ \E t \in Threads, n \in AttrNames : SetAttribute(t, 1, n, << "x" >>)
    \/ \E t \in Threads : Insert(t, 1, 1, << 1 >>)
    \/ \E t \in Threads : SearchStart(t, 1, << 1 >>)
    \/ \E t \in Threads : SearchStep(t)
    \/ \E t \in Threads : SearchFail(t)
    \/ \E t \in Threads : SearchReturn(t)

SpecShared == Init /\ [][NextShared]_vars

\* the clients of the contention workload: both threads call the operations
\* that take part in transactions and searches on session 1, and a call on
\* the locked session blocks
NextLock ==
    \/ \E t \in Threads : Wait(t, 1)
    \/ \E t \in Threads : Begin(t, 1)
    \/ \E t \in Threads : CommitStart(t, 1)
    \/ \E t \in Threads : WriterCommit(t)
    \/ \E t \in Threads : WriterCommitFail(t)
    \/ \E t \in Threads : CommitFinish(t)
    \/ \E t \in Threads : Rollback(t, 1)
    \/ \E t \in Threads : OptimizeStart(t, 1)
    \/ \E t \in Threads : OptimizeMerge(t)
    \/ \E t \in Threads : OptimizeFail(t)
    \/ \E t \in Threads : Cleanup(t, 1)
    \/ \E t \in Threads : Insert(t, 1, 1, << 1 >>)
    \/ \E t \in Threads : SearchStart(t, 1, << 1 >>)
    \/ \E t \in Threads : SearchStep(t)
    \/ \E t \in Threads : SearchFail(t)
    \/ \E t \in Threads : SearchReturn(t)

\* a thread inside an operation runs on: the writer's or the reader's call
\* returns or throws, and the operation returns
Proceed(t) ==
    \/ WriterCommit(t)
    \/ WriterCommitFail(t)
    \/ CommitFinish(t)
    \/ OptimizeMerge(t)
    \/ OptimizeFail(t)
    \/ SearchStep(t)
    \/ SearchFail(t)
    \/ SearchReturn(t)

\* a thread blocked in a QMutexLocker gets the mutex and enters its operation
Acquire(t) == NextLock /\ pc[t] = "lock" /\ pc'[t] # "lock"

\* the contention workload with threads that keep running and a mutex that
\* does not pass over a blocked caller for ever
SpecLock ==
    /\ Init /\ [][NextLock]_vars
    /\ \A t \in Threads : WF_vars(Proceed(t)) /\ SF_vars(Acquire(t))

\* the clients of the merge workload: thread 1 writes through session 1 and
\* optimizes, thread 2 searches through either session
NextOpt ==
    \/ Begin(1, 1)
    \/ CommitStart(1, 1)
    \/ WriterCommit(1)
    \/ WriterCommitFail(1)
    \/ CommitFinish(1)
    \/ Rollback(1, 1)
    \/ OptimizeStart(1, 1)
    \/ OptimizeMerge(1)
    \/ OptimizeFail(1)
    \/ Cleanup(1, 1)
    \/ \E d \in Docs, h \in HashVectors : Insert(1, 1, d, h)
    \/ \E s \in Sessions : Wait(2, s)
    \/ \E s \in Sessions, h \in HashVectors : SearchStart(2, s, h)
    \/ SearchStep(2)
    \/ SearchFail(2)
    \/ SearchReturn(2)

SpecOpt == Init /\ [][NextOpt]_vars

(* ------------------------------- properties ----------------------------- *)
\* the sessions that hold a writer, i.e. are in a transaction
Writers == {s \in Sessions : m_indexWriter[s] # NULL}

\* the variables a rejected call must leave alone: everything but ret
\* searches of one session on an index that holds documents, between changes
\* of the session's settings
NextCollector ==
    \/ \E n \in SessionAttrs, v \in Values : SetAttribute(1, 1, n, v)
    \/ \E h \in {<< 1, 2, 3 >>, << 2, 2 >>, << 3 >>} : SearchStart(1, 1, h)
    \/ SearchStep(1)
    \/ SearchReturn(1)

SpecCollector == InitCollector /\ [][NextCollector]_vars

\* the callers of ScopedPtr
NextScoped ==
    \/ \E i \in ScopedPtrs, p \in Pointers : ScopedPtrConstruct(i, p)
    \/ \E i \in ScopedPtrs : ScopedPtrDestroy(i)
    \/ \E i \in ScopedPtrs, p \in Pointers : reset(i, p)
    \/ \E i \in ScopedPtrs : release(i)
    \/ \E i \in ScopedPtrs, b \in ScopedPtrs : swap(i, b)

SpecScoped == Init /\ [][NextScoped]_vars

stateVars == << info, hasWriter, garbage, committedGen, m_indexWriter,
                m_maxResults, m_topScorePercent, m_mutex, pc, cur >>

\* C1: at most one session holds a writer at any time, and a begin() issued
\* by any session while some session holds a writer fails with
\* AlreadyInTransaction and creates no writer.
C1_SingleWriter ==
    [][ /\ Cardinality(Writers') <= 1
        /\ \A t \in Threads, s \in Sessions :
             (Writers # {} /\ Begin(t, s)) =>
                 /\ ret' = Ret("begin", s, "AlreadyInTransaction")
                 /\ m_indexWriter' = m_indexWriter ]_vars

\* a begin() of one session was rejected while another session holds the writer
C1_Witness ==
    /\ ret.op = "begin" /\ ret.err = "AlreadyInTransaction"
    /\ m_indexWriter[ret.s] = NULL
    /\ \E s \in Sessions \ {ret.s} : m_indexWriter[s] # NULL /\ m_indexWriter[s].buffer # {}

\* C2: begin() on a session that is in a transaction throws
\* AlreadyInTransaction and leaves the session as it was: same writer, same
\* buffered inserts, same pending attributes, still in the transaction.
C2_BeginInTransactionRejected ==
    [][ \A t \in Threads, s \in Sessions :
          (m_indexWriter[s] # NULL /\ Begin(t, s)) =>
              /\ ret' = Ret("begin", s, "AlreadyInTransaction")
              /\ m_indexWriter'[s] = m_indexWriter[s]
              /\ m_indexWriter'[s] # NULL
              /\ UNCHANGED stateVars ]_vars

\* a begin() was rejected on a session whose writer holds buffered inserts and
\* a pending attribute
C2_Witness ==
    /\ ret.op = "begin" /\ ret.err = "AlreadyInTransaction"
    /\ m_indexWriter[ret.s] # NULL
    /\ m_indexWriter[ret.s].buffer # {}
    /\ m_indexWriter[ret.s].info.attrs # info.attrs

\* C3: commit(), rollback(), optimize(), cleanup() and insert() on a session
\* that is not in a transaction throw NotInTransaction and change nothing:
\* not the session, not its max_results and top_score_percent, not the
\* published manifest, not the index.
C3_NotInTransactionRejected ==
    [][ \A t \in Threads, s \in Sessions :
          /\ (m_indexWriter[s] = NULL /\ CommitStart(t, s)) =>
                 (ret' = Ret("commit", s, "NotInTransaction") /\ UNCHANGED stateVars)
          /\ (m_indexWriter[s] = NULL /\ Rollback(t, s)) =>
                 (ret' = Ret("rollback", s, "NotInTransaction") /\ UNCHANGED stateVars)
          /\ (m_indexWriter[s] = NULL /\ OptimizeStart(t, s)) =>
                 (ret' = Ret("optimize", s, "NotInTransaction") /\ UNCHANGED stateVars)
          /\ (m_indexWriter[s] = NULL /\ Cleanup(t, s)) =>
                 (ret' = Ret("cleanup", s, "NotInTransaction") /\ UNCHANGED stateVars)
          /\ \A d \in Docs, h \in HashVectors :
               (m_indexWriter[s] = NULL /\ Insert(t, s, d, h)) =>
                 (ret' = Ret("insert", s, "NotInTransaction") /\ UNCHANGED stateVars)
      ]_vars

\* an insert() was rejected on a session out of a transaction, with settings
\* other than the defaults and documents already published
C3_Witness ==
    /\ ret.op = "insert" /\ ret.err = "NotInTransaction"
    /\ m_indexWriter[ret.s] = NULL
    /\ m_maxResults[ret.s] # DefaultMaxResults
    /\ m_topScorePercent[ret.s] # DefaultTopScorePercent
    /\ info.segments # << >>

\* C4: when the writer's commit fails inside commit(), the error leaves
\* commit() and the session keeps its transaction: same writer, same buffered
\* documents, nothing published, so that the next commit() on the session
\* reaches the writer again instead of throwing NotInTransaction.
C4_FailedCommitKeepsTransaction ==
    [][ \A t \in Threads :
          WriterCommitFail(t) =>
              /\ ret' = Ret("commit", cur[t].s, "IOError")
              /\ m_indexWriter' = m_indexWriter
              /\ m_indexWriter'[cur[t].s] # NULL
              /\ m_mutex'[cur[t].s] = 0
              /\ info' = info /\ hasWriter' = hasWriter ]_vars

\* a commit() failed on a session that still holds the writer and its buffer
C4_Witness ==
    /\ ret.op = "commit" /\ ret.err = "IOError"
    /\ m_indexWriter[ret.s] # NULL
    /\ m_indexWriter[ret.s].buffer # {}

\* C5: after begin(), inserts only and rollback(), the published manifest is
\* what it was at the begin() and the session is out of a transaction; a
\* following begin() opens a writer on that manifest with an empty buffer,
\* whose immediate commit publishes no segment.
C5_RollbackDiscards ==
    [][ \A t \in Threads, s \in Sessions :
          /\ (m_indexWriter[s] # NULL /\ Rollback(t, s)) =>
                 /\ ret'.err = OK
                 /\ m_indexWriter'[s] = NULL
                 /\ WriterLockFree'
                 /\ m_indexWriter[s].insertsOnly => info' = m_indexWriter[s].info
          /\ (Begin(t, s) /\ ret'.err = OK) =>
                 /\ m_indexWriter'[s] # NULL
                 /\ m_indexWriter'[s].buffer = {}
                 /\ m_indexWriter'[s].info = info
                 /\ CommittedManifest(m_indexWriter'[s].info,
                                      m_indexWriter'[s].buffer).segments
                        = info.segments ]_vars

\* a rollback() has discarded buffered inserts
C5_Witness ==
    /\ ret.op = "rollback" /\ ret.err = OK
    /\ ret.res # << 0 >>
    /\ m_indexWriter[ret.s] = NULL

\* C6: a search, on the inserting session or on any other, starts from the
\* published manifest and returns only documents that have a live posting in
\* it for a hash of the query; what a writer has buffered is not seen.
C6_UncommittedInvisible ==
    [][ \A t \in Threads :
          /\ \A s \in Sessions, h \in HashVectors :
               SearchStart(t, s, h) => cur'[t].snap = info
          /\ SearchReturn(t) =>
               \A i \in 1..Len(ret'.res) :
                  \E h \in SeqRange(cur[t].query) :
                     ret'.res[i][1] \in PostingsFor(cur[t].snap, h) ]_vars

\* a search on the inserting session has found nothing for a hash while the
\* session's writer buffers a document with that hash
C6_Witness ==
    \E t \in Threads :
        /\ pc[t] = "search" /\ cur[t].todo = << >> /\ cur[t].query # << >>
        /\ m_indexWriter[cur[t].s] # NULL
        /\ \E x \in m_indexWriter[cur[t].s].buffer :
              /\ x[1] \in SeqRange(cur[t].query)
              /\ cur[t].scores[x[2]] = 0

\* C7: a search that starts after a commit() has returned runs against the
\* generation of that commit or a later one.
C7_CommitVisibleToLaterSearch ==
    \A t \in Threads :
        pc[t] = "search" => cur[t].snap.generation >= cur[t].floor

\* a search that started after a commit() returned has found a document
C7_Witness ==
    \E t \in Threads :
        /\ pc[t] = "search" /\ cur[t].floor > 0 /\ cur[t].todo = << >>
        /\ \E d \in Docs : cur[t].scores[d] > 0

\* C8: a search keeps the snapshot it took: commits, optimizes and cleanups
\* that complete while it runs publish later generations and do not change
\* the snapshot, and the result is that of the whole query evaluated against
\* that one snapshot.
C8_SnapshotIsolation ==
    [][ \A t \in Threads :
          /\ (pc[t] = "search" /\ pc'[t] = "search") =>
                 /\ cur'[t].snap = cur[t].snap
                 /\ cur'[t].snap.generation <= info'.generation
                 /\ info' # info => cur'[t].snap.generation < info'.generation
          /\ SearchReturn(t) =>
                 ret'.res = topResults(Evaluate(cur[t].snap, Uniq(cur[t].query),
                                                NoScores),
                                       cur[t].k, cur[t].p) ]_vars

\* a search has evaluated its whole query on a snapshot that a later commit
\* has since replaced by a manifest that answers the query differently
C8_Witness ==
    \E t \in Threads :
        /\ pc[t] = "search" /\ cur[t].todo = << >> /\ cur[t].query # << >>
        /\ cur[t].snap.generation < info.generation
        /\ cur[t].scores # Evaluate(info, Uniq(cur[t].query), NoScores)

\* C9: set_attribute of max_results or top_score_percent succeeds in and out
\* of a transaction and touches neither the writer nor the manifest; no other
\* step, commit() and rollback() included, changes the two settings.
C9_SessionAttributesNotTransactional ==
    [][ /\ \A t \in Threads, s \in Sessions, n \in SessionAttrs, v \in Values :
             (ret'.op = "set_attribute" /\ ret'.s = s /\ SetAttribute(t, s, n, v)) =>
                /\ ret' = Ret("set_attribute", s, OK)
                /\ m_indexWriter' = m_indexWriter
                /\ info' = info
                /\ n = "max_results" => m_maxResults'[s] = toInt(v)
                /\ n = "top_score_percent" => m_topScorePercent'[s] = toInt(v)
        /\ (m_maxResults' # m_maxResults \/ m_topScorePercent' # m_topScorePercent) =>
             /\ ret'.op = "set_attribute"
             /\ \E t \in Threads, s \in Sessions, n \in SessionAttrs, v \in Values :
                   SetAttribute(t, s, n, v) ]_vars

\* a rollback() or commit() has ended a transaction of a session whose
\* max_results is not the default
C9_Witness ==
    /\ ret.op \in {"rollback", "commit"} /\ ret.err = OK
    /\ m_indexWriter[ret.s] = NULL
    /\ m_maxResults[ret.s] = 150

\* C10: set_attribute refuses a non-numeric max_results and a
\* top_score_percent that is not a number in 0..100 with InvalidAttribute and
\* keeps the previous settings.
C10_InvalidAttributeRejected ==
    [][ \A t \in Threads, s \in Sessions, v \in Values :
          /\ (SetAttribute(t, s, "max_results", v) /\ ~IsNumeric(v)) =>
                /\ ret'.err = "InvalidAttribute"
                /\ m_maxResults' = m_maxResults
          /\ (SetAttribute(t, s, "top_score_percent", v)
                /\ (~IsNumeric(v) \/ toInt(v) < 0 \/ toInt(v) > 100)) =>
                /\ ret'.err = "InvalidAttribute"
                /\ m_topScorePercent' = m_topScorePercent ]_vars

\* C11: set_attribute of a name other than max_results and top_score_percent
\* throws NotInTransaction and changes nothing on a session out of a
\* transaction; in a transaction it sets the value in the writer's pending
\* manifest only, the writer's commit publishes the pending attributes, a
\* rollback drops them, and no other step changes the published attributes.
C11_IndexAttributesTransactional ==
    [][ /\ \A t \in Threads, s \in Sessions, n \in IndexAttrs, v \in Values :
             SetAttribute(t, s, n, v) =>
                IF m_indexWriter[s] = NULL
                THEN /\ ret' = Ret("set_attribute", s, "NotInTransaction")
                     /\ UNCHANGED stateVars
                ELSE /\ ret' = Ret("set_attribute", s, OK)
                     /\ m_indexWriter'[s] # NULL
                     /\ m_indexWriter'[s].info.attrs[n] = v
                     /\ info' = info
        /\ \A t \in Threads :
             WriterCommit(t) => info'.attrs = m_indexWriter[cur[t].s].info.attrs
        /\ \A t \in Threads, s \in Sessions :
             (m_indexWriter[s] # NULL /\ Rollback(t, s)) =>
                 /\ info'.attrs = info.attrs
                 /\ m_indexWriter'[s] = NULL
        /\ info'.attrs # info.attrs => \E t \in Threads : WriterCommit(t)
      ]_vars

\* a commit() has published an attribute that a later transaction has set to
\* another value it has not committed
C11_Witness ==
    /\ info.attrs["note"] # << >>
    /\ \E s \in Sessions :
          /\ m_indexWriter[s] # NULL
          /\ m_indexWriter[s].info.attrs["note"] # info.attrs["note"]

\* C12: get_attribute of a name other than max_results and top_score_percent
\* changes nothing and returns the value of the writer's pending manifest on
\* a session in a transaction, of the published manifest on a session out of
\* one; the pending value of a name is the value the transaction set last,
\* and the published value changes at a writer's commit only.
C12_GetAttributeReadsPendingOrPublished ==
    [][ /\ \A t \in Threads, s \in Sessions, n \in IndexAttrs :
             GetAttribute(t, s, n) =>
                /\ ret'.op = "get_attribute" /\ ret'.s = s /\ ret'.err = OK
                /\ ret'.res = << IF m_indexWriter[s] = NULL
                                 THEN info.attrs[n]
                                 ELSE m_indexWriter[s].info.attrs[n] >>
                /\ UNCHANGED stateVars
        /\ \A t \in Threads, s \in Sessions, n \in IndexAttrs, v \in Values :
             (m_indexWriter[s] # NULL /\ SetAttribute(t, s, n, v)) =>
                 m_indexWriter'[s].info.attrs[n] = v
        /\ \A s \in Sessions, n \in IndexAttrs :
             (m_indexWriter[s] # NULL /\ m_indexWriter'[s] # NULL
                /\ m_indexWriter'[s].info.attrs[n] # m_indexWriter[s].info.attrs[n]) =>
                 \E t \in Threads, v \in Values : SetAttribute(t, s, n, v)
        /\ info'.attrs # info.attrs =>
             \E t \in Threads :
                WriterCommit(t) /\ info'.attrs = m_indexWriter[cur[t].s].info.attrs
      ]_vars

\* a session in a transaction has read back a value it has set and not
\* committed, other than the published one
C12_Witness ==
    /\ ret.op = "get_attribute"
    /\ m_indexWriter[ret.s] # NULL
    /\ ret.res = << m_indexWriter[ret.s].info.attrs["note"] >>
    /\ ret.res # << info.attrs["note"] >>
    /\ ret.res # << arg(m_maxResults[ret.s]) >>
    /\ ret.res # << arg(m_topScorePercent[ret.s]) >>
    /\ info.attrs["note"] # << >>

\* C13: the bodies of the operations of one session exclude each other: at
\* most one thread is inside an operation of a session and it holds the
\* session's mutex; while it is inside, no other call changes the session or
\* returns from it; and a search and a commit that take several steps end as
\* if they had run in one: the search result is that of its query under the
\* session's settings at the return, and the commit drops the writer exactly
\* as it has committed it.
C13_SessionMutexSerialises ==
    [][ /\ \A s \in Sessions :
             /\ \A t \in Threads :
                  (pc'[t] \notin {"idle", "lock"} /\ cur'[t].s = s) <=> m_mutex'[s] = t
             /\ \A t \in Threads :
                  (m_mutex[s] = t /\ pc'[t] = pc[t] /\ cur'[t] = cur[t]) =>
                      /\ m_indexWriter'[s] = m_indexWriter[s]
                      /\ m_maxResults'[s] = m_maxResults[s]
                      /\ m_topScorePercent'[s] = m_topScorePercent[s]
                      /\ ret' = ret \/ ret'.s # s
        /\ \A t \in Threads :
             SearchReturn(t) =>
                 ret'.res = topResults(Evaluate(cur[t].snap, Uniq(cur[t].query),
                                                NoScores),
                                       m_maxResults[cur[t].s],
                                       m_topScorePercent[cur[t].s])
        /\ \A t \in Threads :
             CommitFinish(t) =>
                 /\ m_indexWriter[cur[t].s] # NULL
                 /\ m_indexWriter[cur[t].s].buffer = {}
                 /\ m_indexWriter[cur[t].s].info = info
      ]_vars

\* a thread is blocked in a call on the session on which another thread is
\* inside a search, in a transaction and with max_results set
C13_Witness ==
    \E t \in Threads, u \in Threads :
        /\ pc[t] = "search" /\ cur[t].todo = << >>
        /\ Waiting(u, cur[t].s)
        /\ m_indexWriter[cur[t].s] # NULL
        /\ m_maxResults[cur[t].s] # DefaultMaxResults

\* C14 as stated: while an optimize() is merging, every search() that is
\* called, on any session, can start.
C14_OptimizeNeverBlocksSearch ==
    \A t \in Threads, u \in Threads, s \in Sessions, h \in HashVectors :
        (pc[t] = "optimize" /\ (Idle(u) \/ Waiting(u, s))) =>
            ENABLED SearchStart(u, s, h)

\* C14 as amended: while an optimize() is merging, a search() called on
\* another session starts at once and every search in progress on another
\* session can take its next step up to its return; a search() called on the
\* session that runs the optimize() cannot start before the optimize() ends.
C14_OptimizeBlocksOwnSessionOnly ==
    \A t \in Threads, u \in Threads, s \in Sessions, h \in HashVectors :
        (pc[t] = "optimize" /\ u # t) =>
            /\ (s # cur[t].s /\ (Idle(u) \/ Waiting(u, s))) =>
                   ENABLED SearchStart(u, s, h)
            /\ (s # cur[t].s /\ pc[u] = "search" /\ cur[u].s = s) =>
                   ENABLED (SearchStep(u) \/ SearchReturn(u))
            /\ s = cur[t].s => ~ENABLED SearchStart(u, s, h)

\* a search that started on another session while an optimize() was merging
\* has evaluated its query and found a document, the merge still running
C14_Witness ==
    \E t \in Threads, u \in Threads :
        /\ pc[t] = "optimize"
        /\ pc[u] = "search" /\ cur[u].s # cur[t].s
        /\ cur[u].merging /\ cur[u].todo = << >> /\ cur[u].query # << >>
        /\ \E d \in Docs : cur[u].scores[d] > 0

\* C15: the published generation never decreases; a writer's commit publishes
\* a generation greater than the one published before it and than every
\* generation a commit() has returned; each commit() that returns has
\* published a greater generation than the commit() before it; and the
\* generation changes at a writer's commit or at the manifest an optimize()
\* publishes for its merge only: begin(), insert(), rollback(), failed
\* commits, rejected calls and searches leave it as it is.
C15_GenerationIncreases ==
    [][ /\ info'.generation >= info.generation
        /\ \A t \in Threads :
             WriterCommit(t) =>
                 /\ info'.generation > info.generation
                 /\ info'.generation > committedGen
        /\ \A t \in Threads :
             CommitFinish(t) =>
                 /\ committedGen' > committedGen
                 /\ committedGen' = info.generation
        /\ info'.generation # info.generation =>
             \E t \in Threads : WriterCommit(t) \/ OptimizeMerge(t)
        /\ \A t \in Threads, s \in Sessions :
             (Rollback(t, s) \/ Begin(t, s)) => info' = info
      ]_vars

\* a second commit() has returned, one of the two without documents
C15_Witness ==
    /\ ret.op = "commit" /\ ret.err = OK
    /\ committedGen = 2 /\ info.generation = 2
    /\ Len(info.segments) = 1

\* C16: a search() that returns hands back at most max_results entries, all
\* of them documents with hits whose score is at least top_score_percent
\* percent of the best score, ordered by score descending and then by
\* document id ascending, and leaves out no document that ranks before one it
\* returns; the two settings are the session's at the moment of the search,
\* and with max_results 0 the result is empty
C16_SearchAppliesSessionSettings ==
    [][\A t \in Threads :
        /\ (\E s \in Sessions, h \in HashVectors \cup {<< 1, 2, 3 >>, << 2, 2 >>, << 3 >>} :
                SearchStart(t, s, h)) =>
               /\ cur'[t].k = m_maxResults[cur'[t].s]
               /\ cur'[t].p = m_topScorePercent[cur'[t].s]
        /\ SearchReturn(t) =>
            LET k      == m_maxResults[cur[t].s]
                p      == m_topScorePercent[cur[t].s]
                scores == Evaluate(cur[t].snap, Uniq(cur[t].query), NoScores)
                best   == Max({scores[d] : d \in DocIds})
                res    == ret'.res
                good   == {d \in DocIds : /\ scores[d] > 0
                                          /\ scores[d] * 100 >= best * p}
                in     == {res[i][1] : i \in 1..Len(res)}
            IN  /\ Len(res) <= IF k > 0 THEN k ELSE 0
                /\ k = 0 => res = << >>
                /\ in \subseteq good
                /\ \A i \in 1..Len(res) : res[i][2] = scores[res[i][1]]
                /\ \A i \in 1..Len(res), j \in 1..Len(res) :
                      i < j => \/ res[i][2] > res[j][2]
                               \/ /\ res[i][2] = res[j][2]
                                  /\ res[i][1] < res[j][1]
                /\ \A d \in good \ in :
                      /\ Len(res) = k
                      /\ \A e \in in : Before(scores, e, d)]_vars

\* a search has returned fewer entries than the documents it hit: two
\* entries of different scores, with the best score 3, a document of score 1
\* left out below the threshold and one of score 2 cut off by max_results
C16_Witness ==
    /\ ret.op = "search" /\ ret.err = OK /\ ret.s = 1
    /\ m_maxResults[1] = 1 /\ m_topScorePercent[1] = 50
    /\ Len(ret.res) = 1
    /\ ret.res[1][2] = 3
    /\ \E d \in DocIds : << 1, d >> \in info.segments[1].postings
                          /\ << 2, d >> \notin info.segments[1].postings
    /\ \E d \in DocIds : << 2, d >> \in info.segments[1].postings
                          /\ << 3, d >> \notin info.segments[1].postings

\* the session is in a transaction
InTransaction(s) == m_indexWriter[s] # NULL

\* C17: a session enters a transaction only by a begin() that succeeds and
\* leaves it only by a commit() or rollback() that succeeds; each of these
\* does change it, a begin() that follows a successful commit() or rollback()
\* of the session succeeds, and no other operation or throwing call changes
\* whether the session is in a transaction
C17_TransactionInterval ==
    [][\A s \in Sessions :
        /\ (~InTransaction(s) /\ InTransaction(s)') =>
               /\ ret'.op = "begin" /\ ret'.err = OK /\ ret'.s = s
               /\ \E t \in Threads : Begin(t, s)
        /\ (InTransaction(s) /\ ~InTransaction(s)') =>
               /\ ret'.op \in {"commit", "rollback"}
               /\ ret'.err = OK /\ ret'.s = s
               /\ \E t \in Threads :
                     \/ CommitFinish(t) /\ cur[t].s = s
                     \/ Rollback(t, s)
        /\ \A t \in Threads :
              /\ (ret'.op = "begin" /\ ret'.s = s /\ ret'.err = OK
                  /\ Begin(t, s)) =>
                     ~InTransaction(s) /\ InTransaction(s)'
              /\ (CommitFinish(t) /\ cur[t].s = s) =>
                     InTransaction(s) /\ ~InTransaction(s)'
              /\ (ret'.op = "rollback" /\ ret'.s = s /\ ret'.err = OK
                  /\ Rollback(t, s)) =>
                     InTransaction(s) /\ ~InTransaction(s)'
              /\ (ret.op \in {"commit", "rollback"} /\ ret.err = OK
                  /\ ret.s = s /\ ret'.op = "begin" /\ Begin(t, s)) =>
                     ret'.err = OK /\ InTransaction(s)']_vars

\* a begin() has succeeded on a session whose earlier transaction was
\* committed
C17_Witness ==
    /\ ret.op = "begin" /\ ret.err = OK
    /\ InTransaction(ret.s)
    /\ committedGen >= 1
    /\ m_indexWriter[ret.s].info.generation = committedGen

\* C18: an optimize() or cleanup() that returns leaves the session in the
\* transaction it was called in, on the same writer with the same pending
\* documents; a begin() that follows throws AlreadyInTransaction and changes
\* nothing, and a commit() or rollback() that follows finds the transaction
\* and is what ends it
C18_OptimizeCleanupKeepTransaction ==
    [][\A s \in Sessions, t \in Threads :
        /\ (/\ ret'.op \in {"optimize", "cleanup"}
            /\ ret'.s = s /\ ret'.err = OK
            /\ \/ OptimizeStart(t, s)
               \/ OptimizeMerge(t) /\ cur[t].s = s
               \/ Cleanup(t, s)) =>
               /\ InTransaction(s) /\ InTransaction(s)'
               /\ hasWriter /\ hasWriter'
               /\ m_indexWriter'[s].buffer = m_indexWriter[s].buffer
               /\ \A x \in Sessions \ {s} :
                     m_indexWriter'[x] = m_indexWriter[x]
        /\ (ret.op \in {"optimize", "cleanup"} /\ ret.s = s /\ ret.err = OK) =>
               /\ (ret'.op = "begin" /\ Begin(t, s)) =>
                      /\ ret'.err = "AlreadyInTransaction"
                      /\ m_indexWriter' = m_indexWriter
               /\ CommitStart(t, s) => pc'[t] = "commit"
               /\ (ret'.op = "rollback" /\ Rollback(t, s)) =>
                      ret'.err = OK /\ ~InTransaction(s)'
               /\ (InTransaction(s) /\ ~InTransaction(s)') =>
                      ret'.op \in {"commit", "rollback"}]_vars

\* a cleanup() has returned in a transaction with pending documents, after
\* an optimize() of the same session merged two committed segments
C18_Witness ==
    /\ ret.op = "cleanup" /\ ret.err = OK
    /\ InTransaction(ret.s)
    /\ m_indexWriter[ret.s].buffer # {}
    /\ \A t \in Threads : pc[t] = "idle"
    /\ committedGen = 2 /\ info.generation = 3
    /\ Len(info.segments) = 1
    /\ garbage = {}

Held(o) == \E i \in ScopedPtrs : live[i] /\ ptr[i] = o

\* C20 as stated, for whatever pointers the callers pass: no object is
\* deleted twice, a held object is not deleted, an object that was passed
\* and is neither held nor back with the caller was deleted once, a released
\* object is not deleted; a delete happens to a held object that is held no
\* longer afterwards, reset(p) with the held pointer changes nothing, and
\* release() leaves null behind and the object with the caller
C20_EveryHandedObjectDeletedOnce ==
    /\ [](\A o \in Objs :
            /\ deletes[o] <= 1
            /\ Held(o) => deletes[o] = 0
            /\ o \in owned => deletes[o] = 0
            /\ (o \in handed /\ ~Held(o) /\ o \notin owned) => deletes[o] = 1)
    /\ [][/\ \A o \in Objs :
              deletes'[o] # deletes[o] =>
                 /\ deletes'[o] = deletes[o] + 1
                 /\ Held(o) /\ ~Held(o)'
          /\ \A i \in ScopedPtrs :
              /\ (live[i] /\ ptr[i] # 0 /\ reset(i, ptr[i])) =>
                     deletes' = deletes /\ ptr' = ptr
              /\ release(i) =>
                     /\ ptr'[i] = 0
                     /\ deletes' = deletes
                     /\ ptr[i] # 0 => ptr[i] \in owned']_vars

\* C20 for callers that pass a ScopedPtr only null, the pointer it already
\* holds, or an object they own (newly allocated, or returned by release()
\* and not passed on since): the same properties
C20_OwnedObjectsDeletedOnce ==
    /\ [](~aliased =>
            \A o \in Objs :
               /\ deletes[o] <= 1
               /\ Held(o) => deletes[o] = 0
               /\ Held(o) => Cardinality({i \in ScopedPtrs : ptr[i] = o}) = 1
               /\ o \in owned => deletes[o] = 0
               /\ (o \in handed /\ ~Held(o) /\ o \notin owned) => deletes[o] = 1)
    /\ [][~aliased' =>
          /\ \A o \in Objs :
                deletes'[o] # deletes[o] =>
                   /\ deletes'[o] = deletes[o] + 1
                   /\ Held(o) /\ ~Held(o)'
          /\ \A i \in ScopedPtrs :
                /\ (live[i] /\ ptr[i] # 0 /\ reset(i, ptr[i])) =>
                       deletes' = deletes /\ ptr' = ptr
                /\ release(i) =>
                       /\ ptr'[i] = 0
                       /\ deletes' = deletes
                       /\ ptr[i] # 0 => ptr[i] \in owned']_vars

\* callers that respected ownership have had one object deleted by a
\* ScopedPtr while another is held and a third is back with the caller after
\* a release()
C20_Witness ==
    /\ ~aliased
    /\ \E o1 \in Objs, o2 \in Objs, o3 \in Objs :
          /\ deletes[o1] = 1
          /\ Held(o2)
          /\ o3 \in owned /\ ~Held(o3) /\ deletes[o3] = 0
====
